---------------------------- MODULE Spec2Model ----------------------------
(***************************************************************************)
(* Model of ofxstatement-paypal (src/ofxstatement/plugins/paypal.py).      *)
(*                                                                         *)
(* Conventions.                                                            *)
(*  - A text whose characters matter (the Gross and the Date field) is a   *)
(*    sequence of one-character strings; every other field is only ever    *)
(*    compared or copied and is a TLA+ string.                             *)
(*  - Python's None is the value None below; no field text of the model    *)
(*    takes that value.                                                    *)
(*  - Python indexes from 0, TLA+ from 1: row[k] of the code is row[k+1].  *)
(*  - The file is the sequence of records csv.reader yields for it, the    *)
(*    header record first; a blank line is the empty record.               *)
(*  - A float is kept as the exact decimal it denotes (sign, mantissa,     *)
(*    power of ten), normalised so that equal numbers are equal values.    *)
(***************************************************************************)
EXTENDS Integers, Sequences, FiniteSets, TLC

VARIABLES
    settings,    \* PayPalPlugin.settings: currency, locale, analyze
    lines,       \* content of the input file, as csv records
    lcNumeric,   \* the process-wide LC_NUMERIC locale
    pc,          \* where the run stands
    parser,      \* the PayPalStatementParser get_parser returned, or None
    rowsv,       \* the list self.rows returned to split_records
    idx,         \* rows of rowsv already handed to parse_record
    stmtLines,   \* parser.statement.lines
    output,      \* the statement lines delivered to the caller
    err,         \* the exception that ended the run, or NoErr
    run,         \* 1 for the first run over the input, 2 for the second
    prev         \* outcome of the first run

vars == <<settings, lines, lcNumeric, pc, parser, rowsv, idx, stmtLines,
          output, err, run, prev>>

None == "<None>"
NoErr == "<no error>"

(***************************************************************************)
(* Bounds of the model.                                                    *)
(***************************************************************************)
MaxRows == 2
MaxGrossLen == 3

(***************************************************************************)
(* Characters and str.replace.                                             *)
(***************************************************************************)
Digits == {"0", "1", "2", "3", "4", "5", "6", "7", "8", "9"}

DigitVal(c) ==
    CASE c = "0" -> 0 [] c = "1" -> 1 [] c = "2" -> 2 [] c = "3" -> 3
      [] c = "4" -> 4 [] c = "5" -> 5 [] c = "6" -> 6 [] c = "7" -> 7
      [] c = "8" -> 8 [] c = "9" -> 9

RECURSIVE Replace(_, _, _)
\* s.replace(old, new) for a one-character old; new is a text
Replace(s, old, new) ==
    IF s = <<>> THEN <<>>
    ELSE (IF Head(s) = old THEN new ELSE <<Head(s)>>)
             \o Replace(Tail(s), old, new)

RECURSIVE ToNat(_)
\* the number a text of digits denotes
ToNat(s) ==
    IF s = <<>> THEN 0
    ELSE 10 * ToNat(SubSeq(s, 1, Len(s) - 1)) + DigitVal(s[Len(s)])

AllDigits(s) == \A i \in 1..Len(s) : s[i] \in Digits

Count(s, c) == Cardinality({i \in 1..Len(s) : s[i] = c})

RECURSIVE Strip(_)
\* s.strip() for a text whose only whitespace is the space
Strip(s) ==
    IF s = <<>> THEN s
    ELSE IF Head(s) = " " THEN Strip(Tail(s))
    ELSE IF s[Len(s)] = " " THEN Strip(SubSeq(s, 1, Len(s) - 1))
    ELSE s

(***************************************************************************)
(* float(text): [sign] digits [. digits] [e [sign] digits], with single    *)
(* underscores allowed between two digits and surrounding whitespace       *)
(* ignored.  The result is [ok, neg, mant, exp]: the number                *)
(* (-1)^neg * mant * 10^exp, or ok = FALSE for ValueError.  The texts of   *)
(* the model hold no letter of "inf" or "nan".                             *)
(***************************************************************************)
RECURSIVE Normal(_, _, _)
Normal(neg, m, e) ==
    IF m = 0 THEN [ok |-> TRUE, neg |-> FALSE, mant |-> 0, exp |-> 0]
    ELSE IF m % 10 = 0 THEN Normal(neg, m \div 10, e + 1)
    ELSE [ok |-> TRUE, neg |-> neg, mant |-> m, exp |-> e]

NotANumber == [ok |-> FALSE, neg |-> FALSE, mant |-> 0, exp |-> 0]

UnderscoresOk(s) ==
    \A i \in 1..Len(s) :
        s[i] = "_" => /\ i > 1
                      /\ i < Len(s)
                      /\ s[i - 1] \in Digits
                      /\ s[i + 1] \in Digits

Signed(s) == s # <<>> /\ Head(s) \in {"-", "+"}

Unsigned(s) == IF Signed(s) THEN Tail(s) ELSE s

MantissaOk(m) ==
    /\ \A i \in 1..Len(m) : m[i] \in Digits \cup {"."}
    /\ Count(m, ".") <= 1
    /\ \E i \in 1..Len(m) : m[i] \in Digits

ExponentOk(x) == Unsigned(x) # <<>> /\ AllDigits(Unsigned(x))

ExponentVal(x) ==
    IF Signed(x) /\ Head(x) = "-" THEN 0 - ToNat(Tail(x)) ELSE ToNat(Unsigned(x))

FracLen(m) ==
    IF Count(m, ".") = 0 THEN 0
    ELSE Len(m) - (CHOOSE i \in 1..Len(m) : m[i] = ".")

PyFloat(text) ==
    LET s  == Strip(text)
        t  == Replace(s, "_", <<>>)
        u  == Unsigned(t)
        es == {i \in 1..Len(u) : u[i] \in {"e", "E"}}
        k  == IF es = {} THEN Len(u) + 1 ELSE CHOOSE i \in es : TRUE
        m  == SubSeq(u, 1, k - 1)
        x  == SubSeq(u, k + 1, Len(u))
    IN  IF /\ UnderscoresOk(s)
           /\ Cardinality(es) <= 1
           /\ MantissaOk(m)
           /\ (es # {} => ExponentOk(x))
        THEN Normal(Signed(t) /\ Head(t) = "-",
                    ToNat(Replace(m, ".", <<>>)),
                    (IF es = {} THEN 0 ELSE ExponentVal(x)) - FracLen(m))
        ELSE NotANumber


(***************************************************************************)
(* The locales of the model: the names of the C library's locales that     *)
(* the process or the configuration may name, which of them the platform   *)
(* has (Installed), and what localeconv() reports under each.              *)
(***************************************************************************)
Installed == {"C", "C.utf8", "de_DE.UTF-8"}

\* what LC_NUMERIC may be when the plugin is entered
ProcLocales == {"C", "C.utf8", "de_DE.UTF-8"}

\* the `locale` setting; None when the setting is absent
CfgLocales == {None, "C", "de_DE.UTF-8", "en_US.UTF-8"}

\* localeconv()['decimal_point'] under LC_NUMERIC = name
DecimalPoint(name) ==
    IF name = "de_DE.UTF-8" THEN "," ELSE "."

\* localeconv()['thousands_sep'] under LC_NUMERIC = name; None for ''
ThousandsSep(name) ==
    CASE name = "de_DE.UTF-8" -> "."
      [] name = "en_US.UTF-8" -> ","
      [] OTHER -> None

\* locale.getlocale(category): the (language, encoding) pair that
\* _parse_localename(normalize(name)) returns; normalize's alias table
\* turns "C.utf8" into "en_US.UTF-8"
GetLocale(name) ==
    CASE name = "C"                -> [lang |-> None, enc |-> None]
      [] name = "C.utf8"           -> [lang |-> "en_US", enc |-> "UTF-8"]
      [] name = "en_US.UTF-8"      -> [lang |-> "en_US", enc |-> "UTF-8"]
      [] name = "de_DE.UTF-8"      -> [lang |-> "de_DE", enc |-> "UTF-8"]

\* _build_localename(pair)
BuildLocalename(pair) ==
    IF pair.lang = None THEN "C"
    ELSE IF pair.enc = None THEN pair.lang
    ELSE pair.lang \o "." \o pair.enc

\* locale.setlocale(category, loc) with LC_NUMERIC = cur and loc a name
\* or None (a query).  ok = FALSE is locale.Error; lc is LC_NUMERIC
\* afterwards.
SetLocale(cur, loc) ==
    IF loc = None THEN [ok |-> TRUE, lc |-> cur]
    ELSE IF loc \in Installed THEN [ok |-> TRUE, lc |-> loc]
    ELSE [ok |-> FALSE, lc |-> cur]

\* locale.setlocale(category, pair) with a pair as getlocale returns it:
\* the name is built from the pair first
SetLocalePair(cur, pair) == SetLocale(cur, BuildLocalename(pair))

\* locale.delocalize(string) under LC_NUMERIC = lc
Delocalize(string, lc) ==
    LET ts == ThousandsSep(lc)
        s1 == IF ts # None THEN Replace(string, ts, <<>>) ELSE string
    IN  Replace(s1, DecimalPoint(lc), <<".">>)

\* locale.atof(string) under LC_NUMERIC = lc
LocaleAtof(string, lc) == PyFloat(Delocalize(string, lc))

(***************************************************************************)
(* atof(string, loc) with scoped_setlocale inlined.  The result is         *)
(* [err, val, lc]: the exception that leaves the call (NoErr for none),    *)
(* the value returned, and LC_NUMERIC after the call.  An exception of     *)
(* the finally clause replaces the one in flight.                          *)
(***************************************************************************)
ScopedRestore(lc, orig) == SetLocalePair(lc, orig)

Atof(string, loc, lc0) ==
    LET orig == GetLocale(lc0)
        set  == SetLocale(lc0, loc)
        val  == IF set.ok THEN LocaleAtof(string, set.lc) ELSE NotANumber
        body == IF ~set.ok THEN "locale.Error"
                ELSE IF ~val.ok THEN "ValueError"
                ELSE NoErr
        back == ScopedRestore(set.lc, orig)
    IN  [err |-> IF ~back.ok THEN "locale.Error" ELSE body,
         val |-> val,
         lc  |-> back.lc]

(***************************************************************************)
(* datetime.strptime(text, '%d/%m/%Y'): the day is 1..31 written with one  *)
(* or two characters (a leading 0 or space allowed), the month 1..12 with  *)
(* one or two digits, the year four digits; the text must be used up and   *)
(* the date must exist.  ok = FALSE is ValueError.                         *)
(***************************************************************************)
NonZero == Digits \ {"0"}

DayOk(d) ==
    \/ Len(d) = 1 /\ d[1] \in NonZero
    \/ Len(d) = 2 /\ d[1] \in {"0", " "} /\ d[2] \in NonZero
    \/ Len(d) = 2 /\ d[1] \in {"1", "2"} /\ d[2] \in Digits
    \/ Len(d) = 2 /\ d[1] = "3" /\ d[2] \in {"0", "1"}

MonthOk(m) ==
    \/ Len(m) = 1 /\ m[1] \in NonZero
    \/ Len(m) = 2 /\ m[1] = "0" /\ m[2] \in NonZero
    \/ Len(m) = 2 /\ m[1] = "1" /\ m[2] \in {"0", "1", "2"}

YearOk(y) == Len(y) = 4 /\ AllDigits(y)

IsLeap(y) == (y % 4 = 0 /\ y % 100 # 0) \/ y % 400 = 0

DaysInMonth(y, m) ==
    IF m = 2 THEN (IF IsLeap(y) THEN 29 ELSE 28)
    ELSE IF m \in {4, 6, 9, 11} THEN 30
    ELSE 31

NoDate == [ok |-> FALSE, year |-> 0, month |-> 0, day |-> 0]

Strptime(text) ==
    LET sl == {i \in 1..Len(text) : text[i] = "/"}
        p1 == CHOOSE i \in sl : \A j \in sl : i <= j
        p2 == CHOOSE i \in sl : \A j \in sl : j <= i
        d  == SubSeq(text, 1, p1 - 1)
        m  == SubSeq(text, p1 + 1, p2 - 1)
        y  == SubSeq(text, p2 + 1, Len(text))
        dv == ToNat(Replace(d, " ", <<>>))
    IN  IF Cardinality(sl) # 2 THEN NoDate
        ELSE IF ~(DayOk(d) /\ MonthOk(m) /\ YearOk(y)) THEN NoDate
        ELSE IF ToNat(y) < 1 \/ dv > DaysInMonth(ToNat(y), ToNat(m)) THEN NoDate
        ELSE [ok |-> TRUE, year |-> ToNat(y), month |-> ToNat(m), day |-> dv]

(***************************************************************************)
(* PayPalStatementParser: the header schema and the column positions.      *)
(***************************************************************************)
valid_header ==
    << "Date", "Time", "Time Zone", "Name", "Type", "Status", "Currency",
       "Gross", "Fee", "Net", "From Email Address", "To Email Address",
       "Transaction ID", "Shipping Address", "Item Title", "Item ID",
       "Shipping and Handling Amount", "Reference Txn ID", "Receipt ID",
       "Balance", "Contact Phone Number", "Subject", "Note",
       "Balance Impact", "" >>

\* valid_header.index(name), counted from 1
Index(name) ==
    CHOOSE i \in 1..Len(valid_header) :
        /\ valid_header[i] = name
        /\ \A j \in 1..(i - 1) : valid_header[j] # name

ExcludedType == "Bank Deposit to PP Account"

\* drop(iterable, 1)
Drop1(rs) == IF rs = <<>> THEN <<>> ELSE Tail(rs)

\* csv.reader over self.lines: the records of the file
Reader(ls) == ls

(***************************************************************************)
(* The rows property: the list comprehension over the data records, in     *)
(* order.  r[currency_idx] is read first and r[type_idx] only when the     *)
(* currency matches; a record too short for the index read raises          *)
(* IndexError and no list is returned.                                     *)
(***************************************************************************)
\* the comprehension's condition without its second conjunct
RowPassesCurrencyOnly(r, currency) == r[Index("Currency")] = currency

RowPasses(r, currency) ==
    r[Index("Currency")] = currency /\ r[Index("Type")] # ExcludedType

RowRaises(r, currency) ==
    \/ Len(r) < Index("Currency")
    \/ r[Index("Currency")] = currency /\ Len(r) < Index("Type")

RECURSIVE Comprehension(_, _)
Comprehension(rs, currency) ==
    IF rs = <<>> THEN [err |-> NoErr, rows |-> <<>>]
    ELSE LET r    == Head(rs)
             rest == Comprehension(Tail(rs), currency)
         IN  IF RowRaises(r, currency) THEN [err |-> "IndexError", rows |-> <<>>]
             ELSE IF rest.err # NoErr THEN rest
             ELSE IF RowPasses(r, currency)
                  THEN [err |-> NoErr, rows |-> <<r>> \o rest.rows]
                  ELSE rest

Rows(ls, currency) == Comprehension(Drop1(Reader(ls)), currency)

(***************************************************************************)
(* parse_record(row) under the locale setting loc and LC_NUMERIC = lc0.    *)
(* The result is [err, line, lc]: the exception raised (NoErr for none),   *)
(* the StatementLine returned, and LC_NUMERIC afterwards.  row[note_idx]   *)
(* is the first field read and the rightmost one, so a record shorter      *)
(* than that raises IndexError there and no other read can.                *)
(***************************************************************************)
\* the memo taken note first, then subject, then title
MemoNoteFirst(row) ==
    IF row[Index("Note")] # None THEN row[Index("Note")]
    ELSE IF row[Index("Subject")] # None THEN row[Index("Subject")]
    ELSE IF row[Index("Item Title")] # None THEN row[Index("Item Title")]
    ELSE ""

Memo(row) ==
    LET m0 == ""
        m1 == IF row[Index("Note")] # None THEN row[Index("Note")] ELSE m0
        m2 == IF row[Index("Subject")] # None THEN row[Index("Subject")] ELSE m1
        m3 == IF row[Index("Item Title")] # None THEN row[Index("Item Title")] ELSE m2
    IN  m3

Payee(row) ==
    "Name: " \o row[Index("Name")] \o " Email: " \o row[Index("To Email Address")]

\* a normalisation that also drops every character float() cannot read
NormalizeGrossLenient(g) ==
    LET Known(c) == c \in Digits \cup {" ", ".", ",", "-", "+", "e", "_"}
    IN  Replace(Replace(Replace(SelectSeq(g, Known), " ", <<>>), ".", <<>>), ",", <<".">>)

\* row[amount_idx].replace(" ", "").replace(".", "").replace(",", ".")
NormalizeGross(g) == Replace(Replace(Replace(g, " ", <<>>), ".", <<>>), ",", <<".">>)

\* stmt_line.id = row[id_idx]
StmtLineIdWrongColumn(row) == row[Index("Reference Txn ID")]

StmtLineId(row) == row[Index("Transaction ID")]

NoLine == <<>>

ParseRecord(row, loc, lc0) ==
    IF Len(row) < Index("Note")
    THEN [err |-> "IndexError", line |-> NoLine, lc |-> lc0]
    ELSE LET date == Strptime(row[Index("Date")])
             amt  == Atof(NormalizeGross(row[Index("Gross")]), loc, lc0)
         IN  IF ~date.ok
             THEN [err |-> "ValueError", line |-> NoLine, lc |-> lc0]
             ELSE IF amt.err # NoErr
             THEN [err |-> amt.err, line |-> NoLine, lc |-> amt.lc]
             ELSE [err  |-> NoErr,
                   line |-> [id     |-> StmtLineId(row),
                             date   |-> date,
                             memo   |-> Memo(row),
                             payee  |-> Payee(row),
                             refnum |-> row[Index("Reference Txn ID")],
                             amount |-> amt.val],
                   lc   |-> amt.lc]

(***************************************************************************)
(* parse_bool and PayPalPlugin.get_parser.                                 *)
(***************************************************************************)
\* parse_bool comparing without regard to case
ParseBoolAnyCase(value) ==
    IF value \in {"True", "true", "TRUE", "1"} THEN [ok |-> TRUE, val |-> TRUE]
    ELSE IF value \in {"False", "false", "FALSE", "0"} THEN [ok |-> TRUE, val |-> FALSE]
    ELSE [ok |-> FALSE, val |-> FALSE]

ParseBool(value) ==
    IF value \in {"True", "true", "1"} THEN [ok |-> TRUE, val |-> TRUE]
    ELSE IF value \in {"False", "false", "0"} THEN [ok |-> TRUE, val |-> FALSE]
    ELSE [ok |-> FALSE, val |-> FALSE]

(***************************************************************************)
(* The inputs of the model.                                                *)
(***************************************************************************)
GoodDate == <<"2", "5", "/", "1", "2", "/", "2", "0", "2", "3">>
IsoDate  == <<"2", "0", "2", "3", "-", "1", "2", "-", "2", "5">>
NoSuchDay == <<"3", "1", "/", "0", "2", "/", "2", "0", "2", "3">>

\* a record of all 25 fields
MkRow(date, type, currency, gross, id, ref, title, subject, note) ==
    << date, "10:00:00", "CET", "Bob", type, "Completed", currency, gross,
       "0,00", "0,00", "a@example.org", "b@example.org", id, "", title, "",
       "", ref, "", "0,00", "", subject, note, "Credit", "" >>

Short(row, n) == SubSeq(row, 1, n)

Row1 == MkRow(GoodDate, "Payment", "EUR", <<"1", ",", "5">>, "T1", "R1", "Item", "Subj", "Note")
Row2 == MkRow(GoodDate, "Refund", "EUR", <<"-", "2">>, "T2", "", "", "", "")
Row3 == MkRow(GoodDate, "Payment", "USD", <<"1", ",", "5">>, "T3", "", "Item", "", "")
Row4 == MkRow(GoodDate, ExcludedType, "EUR", <<"1", ",", "5">>, "T4", "", "", "", "")
Row5 == MkRow(IsoDate, "Payment", "EUR", <<"1", ",", "5">>, "T5", "", "", "", "")
Row6 == MkRow(GoodDate, "Payment", "EUR", <<"x">>, "T6", "", "", "", "")

\* the data records a file of the model is made of: complete ones, one cut
\* after the Currency column, one cut after the Note column, a blank line
SampleRows ==
    {Row1, Row2, Row3, Row4, Row5, Row6, Short(Row3, 7), Short(Row2, 23), <<>>}

SeqsUpTo(S, n) == UNION {[1..k -> S] : k \in 0..n}

\* the files: empty, or the header and up to MaxRows data records
Files == {<<>>} \cup {<<valid_header>> \o d : d \in SeqsUpTo(SampleRows, MaxRows)}

Currencies == {"EUR", "USD"}

AnalyzeValues == {"True", "true", "1", "False", "false", "0", "yes", "TRUE", ""}

NoParser == <<>>

TypeOK ==
    /\ pc \in {"start", "ready", "iter", "done", "failed", "call", "ret"}
    /\ lcNumeric \in ProcLocales \cup CfgLocales
    /\ run \in {1, 2}
    /\ idx \in 0..Len(rowsv)
    /\ Len(parser) <= 1

(***************************************************************************)
(* The run: get_parser, then parse() of the statement parser, which asks   *)
(* split_records for the rows and hands each to parse_record.              *)
(***************************************************************************)
\* get_parser: parse_bool raises before the parser is constructed
GetParserFails ==
    /\ pc = "start"
    /\ settings.analyze # None
    /\ ~ParseBool(settings.analyze).ok
    /\ pc' = "failed"
    /\ err' = "ValueError"
    /\ UNCHANGED <<settings, lines, lcNumeric, parser, rowsv, idx, stmtLines,
                   output, run, prev>>

\* get_parser: the parser is constructed, which reads the file
GetParserReturns ==
    /\ pc = "start"
    /\ settings.analyze # None => ParseBool(settings.analyze).ok
    /\ parser' = << [currency |-> settings.currency,
                     locale   |-> settings.locale,
                     analyze  |-> IF settings.analyze = None THEN FALSE
                                  ELSE ParseBool(settings.analyze).val,
                     lines    |-> lines] >>
    /\ pc' = "ready"
    /\ UNCHANGED <<settings, lines, lcNumeric, rowsv, idx, stmtLines, output,
                   err, run, prev>>

GetParser == GetParserFails \/ GetParserReturns

\* split_records, entered: self.rows is evaluated once, for the loop
SplitRecords ==
    /\ pc = "ready"
    /\ LET rs == Rows(parser[1].lines, parser[1].currency)
       IN  IF rs.err # NoErr
           THEN /\ pc' = "failed"
                /\ err' = rs.err
                /\ UNCHANGED rowsv
           ELSE /\ pc' = "iter"
                /\ rowsv' = rs.rows
                /\ UNCHANGED err
    /\ UNCHANGED <<settings, lines, lcNumeric, parser, idx, stmtLines, output,
                   run, prev>>

\* a loop that drops the row whose parse_record raised and goes on
ParseStepSkipping ==
    /\ pc = "iter"
    /\ idx < Len(rowsv)
    /\ LET r == ParseRecord(rowsv[idx + 1], parser[1].locale, lcNumeric)
       IN  /\ lcNumeric' = r.lc
           /\ idx' = idx + 1
           /\ stmtLines' = IF r.err # NoErr THEN stmtLines
                           ELSE Append(stmtLines, r.line)
    /\ UNCHANGED <<settings, lines, parser, rowsv, output, run, prev, pc, err>>

\* one turn of the loop: the next row goes through parse_record and its
\* statement line is appended, or the exception ends the run
ParseStep ==
    /\ pc = "iter"
    /\ idx < Len(rowsv)
    /\ LET r == ParseRecord(rowsv[idx + 1], parser[1].locale, lcNumeric)
       IN  /\ lcNumeric' = r.lc
           /\ IF r.err # NoErr
              THEN /\ pc' = "failed"
                   /\ err' = r.err
                   /\ UNCHANGED <<idx, stmtLines>>
              ELSE /\ idx' = idx + 1
                   /\ stmtLines' = Append(stmtLines, r.line)
                   /\ UNCHANGED <<pc, err>>
    /\ UNCHANGED <<settings, lines, parser, rowsv, output, run, prev>>

\* the rows are used up: the statement is returned to the caller
ParseReturns ==
    /\ pc = "iter"
    /\ idx = Len(rowsv)
    /\ pc' = "done"
    /\ output' = stmtLines
    /\ UNCHANGED <<settings, lines, lcNumeric, parser, rowsv, idx, stmtLines,
                   err, run, prev>>

\* the same input is run a second time in the same process, with the same
\* settings; LC_NUMERIC is what the first run left
Rerun ==
    /\ pc \in {"done", "failed"}
    /\ run = 1
    /\ run' = 2
    /\ prev' = [output |-> output, err |-> err]
    /\ pc' = "start"
    /\ parser' = NoParser
    /\ rowsv' = <<>>
    /\ idx' = 0
    /\ stmtLines' = <<>>
    /\ output' = <<>>
    /\ err' = NoErr
    /\ UNCHANGED <<settings, lines, lcNumeric>>

Fresh ==
    /\ pc = "start"
    /\ parser = NoParser
    /\ rowsv = <<>>
    /\ idx = 0
    /\ stmtLines = <<>>
    /\ output = <<>>
    /\ err = NoErr
    /\ run = 1
    /\ prev = [output |-> <<>>, err |-> NoErr]

Init ==
    /\ settings \in [currency : Currencies, locale : {None, "C", "de_DE.UTF-8"},
                     analyze : {None, "yes"}]
    /\ lines \in Files
    /\ lcNumeric \in {"C", "C.utf8"}
    /\ Fresh

Next == GetParser \/ SplitRecords \/ ParseStep \/ ParseReturns \/ Rerun

Spec == Init /\ [][Next]_vars

(***************************************************************************)
(* The same run under every value of the analyze setting.                  *)
(***************************************************************************)
InitConfig ==
    /\ settings \in [currency : Currencies, locale : CfgLocales,
                     analyze : AnalyzeValues \cup {None}]
    /\ lines \in {<<valid_header, Row1>>, <<valid_header, Row3, Row2>>}
    /\ lcNumeric \in {"C", "de_DE.UTF-8"}
    /\ Fresh

SpecConfig == InitConfig /\ [][Next]_vars

(***************************************************************************)
(* parse_record called on one row, on a parser already constructed.        *)
(***************************************************************************)
CallParseRecord ==
    /\ pc = "call"
    /\ LET r == ParseRecord(rowsv[1], parser[1].locale, lcNumeric)
       IN  /\ lcNumeric' = r.lc
           /\ err' = r.err
           /\ stmtLines' = IF r.err = NoErr THEN <<r.line>> ELSE <<>>
    /\ pc' = "ret"
    /\ UNCHANGED <<settings, lines, parser, rowsv, idx, output, run, prev>>

NextCall == CallParseRecord

\* the state in which parse_record is about to be called on row
Called(row) ==
    /\ lines = <<valid_header, row>>
    /\ parser = << [currency |-> settings.currency, locale |-> settings.locale,
                    analyze |-> FALSE, lines |-> lines] >>
    /\ rowsv = <<row>>
    /\ pc = "call"
    /\ idx = 0
    /\ stmtLines = <<>>
    /\ output = <<>>
    /\ err = NoErr
    /\ run = 1
    /\ prev = [output |-> <<>>, err |-> NoErr]

\* the characters a Gross text of the model is made of
GrossChars == {"1", " ", ".", ",", "-", "+", "e", "_", "x"}

InitAmount ==
    /\ settings \in [currency : {"EUR"}, locale : CfgLocales, analyze : {None}]
    /\ lcNumeric \in ProcLocales
    /\ \E g \in SeqsUpTo(GrossChars, MaxGrossLen) :
           Called(MkRow(GoodDate, "Payment", "EUR", g, "T1", "R1", "Item", "Subj", "Note"))

SpecAmount == InitAmount /\ [][NextCall]_vars

\* a field that parse_record finds present or absent
Nullable(S) == S \cup {None}

InitMemo ==
    /\ settings \in [currency : {"EUR"}, locale : CfgLocales, analyze : {None}]
    /\ lcNumeric \in ProcLocales
    /\ \E t \in Nullable({"", "T"}), s \in Nullable({"", "S"}), n \in Nullable({"", "N"}),
          d \in {GoodDate, NoSuchDay}, g \in {<<"1", ",", "5">>, <<"x">>} :
           Called(MkRow(d, "Payment", "EUR", g, "T1", "R1", t, s, n))

SpecMemo == InitMemo /\ [][NextCall]_vars

(***************************************************************************)
(* Properties.                                                             *)
(***************************************************************************)
DataRows == Drop1(lines)

WellFormed == \A i \in 1..Len(DataRows) : Len(DataRows[i]) = Len(valid_header)

Keeps(r) ==
    /\ r[Index("Currency")] = settings.currency
    /\ r[Index("Type")] # "Bank Deposit to PP Account"

\* C1: when every data record has the 25 fields, the rows property raises
\* nothing and returns exactly the data records whose Currency is the
\* target currency and whose Type is not the excluded one, in file order;
\* the first record of the file is never among them.
C1_RowFilter ==
    WellFormed =>
        /\ err # "IndexError"
        /\ pc \in {"iter", "done"} => rowsv = SelectSeq(DataRows, Keeps)

C1_Witness ==
    /\ pc = "iter"
    /\ settings.currency = "EUR"
    /\ DataRows = <<Row4, Row1>>
    /\ rowsv = <<Row1>>

\* C2: the memo of the statement line parse_record returns is the Item
\* Title when that field is present (empty or not), else the Subject when
\* present, else the Note when present, else the empty string.
C2_MemoPrecedence ==
    (pc = "ret" /\ err = NoErr) =>
        LET row == rowsv[1]
            t   == row[Index("Item Title")]
            s   == row[Index("Subject")]
            n   == row[Index("Note")]
        IN  stmtLines[1].memo =
                CASE t # None -> t
                  [] t = None /\ s # None -> s
                  [] t = None /\ s = None /\ n # None -> n
                  [] OTHER -> ""

C2_Witness ==
    /\ pc = "ret"
    /\ err = NoErr
    /\ rowsv[1][Index("Note")] = "N"
    /\ rowsv[1][Index("Subject")] = ""
    /\ rowsv[1][Index("Item Title")] = None
    /\ stmtLines[1].memo = ""

\* C3 (as claimed): the amount of the statement line is the plain decimal
\* reading of the normalised Gross text, whatever the configured locale.
C3_AmountLocaleIndependent ==
    (pc = "ret" /\ err = NoErr) =>
        stmtLines[1].amount = PyFloat(NormalizeGross(rowsv[1][Index("Gross")]))

Passing == SelectSeq(DataRows, Keeps)

\* C4: a run that ends without error delivers one statement line per row
\* that passed the filter, in the order of those rows, the k-th with the
\* Transaction ID and the Reference Txn ID of the k-th such row.
C4_OneToOne ==
    pc = "done" =>
        /\ Len(output) = Len(Passing)
        /\ \A k \in 1..Len(output) :
               /\ output[k].id = Passing[k][Index("Transaction ID")]
               /\ output[k].refnum = Passing[k][Index("Reference Txn ID")]

C4_Witness ==
    /\ pc = "done"
    /\ Len(output) = 2
    /\ output[1].id = "T2"
    /\ output[2].id = "T1"

\* C5 (as claimed): a file with a data record of fewer than 25 fields never
\* runs to completion: the run aborts.
C5_ShortRowAborts ==
    pc = "done" => WellFormed

HasChar(g, c) == \E i \in 1..Len(g) : g[i] = c

\* C6 (as claimed): a Gross text with any character other than a digit, a
\* space, '.' or ',' makes parse_record raise and return no statement line.
C6_AnyOtherCharRejected ==
    (pc = "ret" /\ \E c \in GrossChars \ (Digits \cup {" ", ".", ","}) :
                       HasChar(rowsv[1][Index("Gross")], c))
        => (err # NoErr /\ stmtLines = <<>>)

\* C6 (amended): a Gross text with a character that float() cannot read
\* and that neither the normalisation nor the locale removes makes
\* parse_record raise (ValueError, or locale.Error from the locale
\* switch) and return no statement line.
C6_ForeignCharRejected ==
    (pc = "ret" /\ HasChar(rowsv[1][Index("Gross")], "x"))
        => (err \in {"ValueError", "locale.Error"} /\ stmtLines = <<>>)

C6_Witness ==
    /\ pc = "ret"
    /\ HasChar(rowsv[1][Index("Gross")], "x")
    /\ HasChar(rowsv[1][Index("Gross")], "1")
    /\ err = "ValueError"

\* a row on which parse_record raises whatever the locale
BadRow(row) ==
    \/ Len(row) < Index("Note")
    \/ ~Strptime(row[Index("Date")]).ok
    \/ HasChar(row[Index("Gross")], "x")

\* C7: a row that fails ends the run at that row: its statement line and
\* those of later rows are never made, nothing is delivered as output (the
\* lines of earlier rows included), and after the failure the only step is
\* the start of another run.
C7_FailFast ==
    [][ /\ (pc' = "failed" => output' = <<>>)
        /\ (pc = "failed" => pc' = "start" /\ output' = <<>> /\ stmtLines' = <<>>)
        /\ (pc = "iter" /\ idx < Len(rowsv) /\ BadRow(rowsv[idx + 1])
               => pc' = "failed" /\ err' # NoErr /\ idx' = idx
                  /\ stmtLines' = stmtLines)
        /\ (pc = "ready" /\ (\E i \in 1..Len(DataRows) : DataRows[i] = <<>>)
               => pc' = "failed" /\ err' = "IndexError") ]_vars

C7_Witness ==
    /\ pc = "failed"
    /\ err = "ValueError"
    /\ Len(stmtLines) = 1
    /\ idx = 1
    /\ Len(rowsv) = 2
    /\ output = <<>>

\* C8 (as claimed): the second run over the same input with the same
\* settings ends as the first one did, with the same output.
C8_Idempotent ==
    (run = 2 /\ pc \in {"done", "failed"}) =>
        (output = prev.output /\ err = prev.err)

Truthy == {"True", "true", "1"}
Falsy == {"False", "false", "0"}

\* C9: an analyze setting of "True", "true" or "1" gives the parser
\* analyze = true; "False", "false" or "0" gives false; any other text
\* ends get_parser with an error before a parser exists, the file is read
\* or a row is parsed, and there is no output.
C9_AnalyzeSetting ==
    /\ (parser # NoParser /\ settings.analyze \in Truthy) => parser[1].analyze = TRUE
    /\ (parser # NoParser /\ settings.analyze \in Falsy) => parser[1].analyze = FALSE
    /\ (pc # "start" /\ settings.analyze \notin Truthy \cup Falsy \cup {None})
           => /\ pc = "failed"
              /\ err = "ValueError"
              /\ parser = NoParser
              /\ rowsv = <<>>
              /\ stmtLines = <<>>
              /\ output = <<>>

C9_Witness ==
    /\ pc = "failed"
    /\ settings.analyze = "TRUE"
    /\ parser = NoParser

\* C10 (as claimed): LC_NUMERIC after a call of atof is what it was before
\* the call, however the call ends.
C10_LocaleRestored == [][lcNumeric' = lcNumeric]_vars

=============================================================================
